---- MODULE Spec2Model ----
(***************************************************************************)
(* Model of the run-mcp-agent HTTP handler (function_app.py,              *)
(* run_mcp_agent): request validation, the agent/thread/message/run       *)
(* provisioning calls, the polling loop with tool-call approval, the      *)
(* transcript collection, the agent deletion and the exception handlers.  *)
(* The remote agent service is the environment: every call may return or  *)
(* raise, and every poll may report any status.                           *)
(***************************************************************************)
EXTENDS Integers, Sequences, FiniteSets, TLC

VARIABLES
    environ,           \* os.environ: the set of setting names that have a value
    service,           \* behaviour of the remote service: "arbitrary", "scripted",
                       \* "shared" or "terminating"
    svc_next,          \* remote service: next identifier it hands out
    svc_agents,        \* remote service: ids of the agents that exist
    pc,                \* per invocation: position in run_mcp_agent
    question,          \* per invocation: TRUE when the request carries a question
    agent,             \* per invocation: agent.id (0 before create_agent returned)
    thread,            \* per invocation: thread.id
    run,               \* per invocation: the run object last returned by the service
    tool_approvals,    \* per invocation: the approvals built in the current iteration
    run_status,        \* per invocation: local run_status
    run_id,            \* per invocation: local run_id
    run_error,         \* per invocation: local run_error
    assistant_answer,  \* per invocation: local assistant_answer
    conversation,      \* per invocation: local conversation
    messages,          \* per invocation: the messages the service listed
    response,          \* per invocation: the HttpResponse returned
    calls,             \* per invocation: the service calls made so far, in order
    rag                \* the run_rag_query invocation: position, locals, response

vars == <<environ, service, svc_next, svc_agents, pc, question, agent, thread, run,
          tool_approvals, run_status, run_id, run_error, assistant_answer,
          conversation, messages, response, calls, rag>>

\* the state of run_mcp_agent and of the agent service
mcp_vars == <<environ, service, svc_next, svc_agents, pc, question, agent, thread,
              run, tool_approvals, run_status, run_id, run_error, assistant_answer,
              conversation, messages, response, calls>>

(***************************************************************************)
(* Bounds                                                                  *)
(***************************************************************************)
MaxPolls == 3        \* polls of runs.get one invocation makes in the model
MaxCalls == 2        \* pending tool calls one required action carries
MaxTranscript == 4   \* messages on the thread when the service is scripted

Inv == {1, 2}        \* invocation slots of the hosting runtime
None == "None"

(***************************************************************************)
(* Configuration (lines 366-390, 432)                                      *)
(***************************************************************************)
SettingNames ==
    {"MCP_SERVER_URL", "AZURE_AI_PROJECT_ENDPOINT",
     "AZURE_AI_MODEL_DEPLOYMENT_NAME", "MCP_EXTENSION_KEY"}

\* the dict of lines 373-377, in insertion order
CheckedSettings ==
    <<"MCP_SERVER_URL", "AZURE_AI_PROJECT_ENDPOINT", "AZURE_AI_MODEL_DEPLOYMENT_NAME">>

IsSet(name) == name \in environ

missing_settings == SelectSeq(CheckedSettings, LAMBDA name : ~IsSet(name))

(***************************************************************************)
(* Run objects reported by the remote service                              *)
(***************************************************************************)
Statuses ==
    {"queued", "in_progress", "requires_action", "completed", "failed",
     "cancelled", "expired"}

\* the while condition without "in_progress"
LoopStatuses_noInProgress == {"queued", "requires_action"}

\* the set literal of the while condition, line 442
LoopStatuses == {"queued", "in_progress", "requires_action"}

ToolCallKinds == {"mcp", "function"}

\* lists of pending tool calls; the call at position k has id k
ToolCallLists(kinds) ==
    UNION {[1..n -> kinds] : n \in 0..MaxCalls}

ToolCalls(kindlist) ==
    [k \in 1..Len(kindlist) |-> [id |-> k, kind |-> kindlist[k]]]

NoAction == [kind |-> "none", tool_calls |-> <<>>]

RequiredActions ==
    {[kind |-> "submit_tool_approval", tool_calls |-> ToolCalls(kl)] :
        kl \in ToolCallLists(ToolCallKinds)}
    \cup
    {[kind |-> "submit_tool_outputs", tool_calls |-> ToolCalls(kl)] :
        kl \in ToolCallLists({"function"}) \ {<<>>}}

\* what a run object can look like: status, required_action, last_error
RunViews ==
    {[status |-> s, required_action |-> NoAction, last_error |-> None] :
        s \in Statuses \ {"requires_action", "failed"}}
    \cup
    {[status |-> "failed", required_action |-> NoAction, last_error |-> e] :
        e \in {"server_error"}}
    \cup
    {[status |-> "requires_action", required_action |-> ra, last_error |-> None] :
        ra \in RequiredActions}

\* the scripted service of the polling test: queued at creation, then these
Script == <<"queued", "in_progress", "completed">>

ViewOf(s) == [status |-> s, required_action |-> NoAction, last_error |-> None]

NoRun == [id |-> 0, status |-> None, required_action |-> NoAction, last_error |-> None]

RunObject(id, view) ==
    [id |-> id, status |-> view.status, required_action |-> view.required_action,
     last_error |-> view.last_error]

(***************************************************************************)
(* Service calls and their outcomes                                        *)
(***************************************************************************)
Raisable == {"HttpResponseError", "ServiceRequestError"}

Outcomes == IF service = "arbitrary" THEN {"ok"} \cup Raisable ELSE {"ok"}

NoView == [status |-> None, required_action |-> NoAction, last_error |-> None]

\* what the log keeps of a returned run object: its status, the kind of its
\* required action and whether that action carries pending tool calls
Summary(view) ==
    [status |-> view.status,
     action |-> view.required_action.kind,
     pending |-> view.required_action.tool_calls # <<>>]

\* one entry of the call log: the method, the ids passed, the approvals passed,
\* whether it raised, and the summary of the run object it returned
Call(op, a, t, r, batch, outcome, view) ==
    [op |-> op, agent |-> a, thread |-> t, run |-> r, batch |-> batch,
     raised |-> outcome # "ok",
     result |-> Summary(IF outcome = "ok" THEN view ELSE NoView)]

Polls(i) == Len(SelectSeq(calls[i], LAMBDA c : c.op = "getRun"))

(***************************************************************************)
(* Exception handlers, lines 541-554                                       *)
(***************************************************************************)
HandlerError(exc) ==
    IF exc \in {"ClientAuthenticationError", "HttpResponseError"}
    THEN "Azure AI project call failed."
    ELSE "run-mcp-agent execution failed."

ErrorResponse(exc) ==
    [status_code |-> 502, error |-> HandlerError(exc), details |-> exc]

NoResponse == [status_code |-> 0]

(***************************************************************************)
(* Transcript collection, lines 524-535                                    *)
(***************************************************************************)
\* lines 525-528: the value of the last text part, "" when there is none
TextValue(msg) ==
    IF msg.text_messages # <<>>
    THEN msg.text_messages[Len(msg.text_messages)]
    ELSE ""

\* the iteration that keeps the first assistant text instead of the last
CollectOne_firstAnswer(acc, msg) ==
    IF TextValue(msg) # ""
    THEN [conversation |-> Append(acc.conversation,
                                  [role |-> msg.role, text |-> TextValue(msg)]),
          assistant_answer |-> IF msg.role = "assistant" /\ acc.assistant_answer = ""
                               THEN TextValue(msg)
                               ELSE acc.assistant_answer]
    ELSE acc

\* one iteration of the async for, lines 524-535, on the pair of locals
CollectOne(acc, msg) ==
    IF TextValue(msg) # ""
    THEN [conversation |-> Append(acc.conversation,
                                  [role |-> msg.role, text |-> TextValue(msg)]),
          assistant_answer |-> IF msg.role = "assistant"
                               THEN TextValue(msg)
                               ELSE acc.assistant_answer]
    ELSE acc

RECURSIVE Collect(_, _)
Collect(acc, msgs) ==
    IF msgs = <<>> THEN acc ELSE Collect(CollectOne(acc, Head(msgs)), Tail(msgs))

\* transcripts the arbitrary service lists: nothing, the question, the
\* question and an answer
ShortTranscripts ==
    {<<>>,
     <<[role |-> "user", text_messages |-> <<"hi">>]>>,
     <<[role |-> "user", text_messages |-> <<"hi">>],
       [role |-> "assistant", text_messages |-> <<"first">>]>>}

\* messages the scripted service lists
TranscriptPool ==
    {[role |-> "user", text_messages |-> <<"hi">>],
     [role |-> "assistant", text_messages |-> <<"first">>],
     [role |-> "user", text_messages |-> <<"more">>],
     [role |-> "assistant", text_messages |-> <<>>],
     [role |-> "assistant", text_messages |-> <<"first", "second">>],
     [role |-> "assistant", text_messages |-> <<"">>]}

ListsOver(pool, n) == UNION {[1..k -> pool] : k \in 0..n}

MessageLists ==
    IF service = "scripted"
    THEN ListsOver(TranscriptPool, MaxTranscript)
    ELSE ShortTranscripts

(***************************************************************************)
(* Tool approval, lines 446-478                                            *)
(***************************************************************************)
\* the loop of lines 454-470 without the isinstance test of line 455
BuildApprovals_anyKind(tool_calls) ==
    [k \in 1..Len(tool_calls) |->
        [tool_call_id |-> tool_calls[k].id, approve |-> TRUE]]

\* lines 453-470: one ToolApproval per RequiredMcpToolCall, in list order
RECURSIVE BuildApprovals(_)
BuildApprovals(tool_calls) ==
    IF tool_calls = <<>> THEN <<>>
    ELSE LET tool_call == Head(tool_calls)
             rest == BuildApprovals(Tail(tool_calls))
         IN  IF tool_call.kind = "mcp"
             THEN <<[tool_call_id |-> tool_call.id, approve |-> TRUE]>> \o rest
             ELSE rest

\* line 446
NeedsApproval(r) ==
    r.status = "requires_action" /\ r.required_action.kind = "submit_tool_approval"

\* the iteration without the cancel-and-break of lines 448-451
AfterPoll_noCancel(r) ==
    IF NeedsApproval(r) /\ BuildApprovals(r.required_action.tool_calls) # <<>>
    THEN "submit"
    ELSE "loop"

\* where the iteration goes after runs.get returned r, lines 446-480
AfterPoll(r) ==
    IF NeedsApproval(r)
    THEN IF r.required_action.tool_calls = <<>>
         THEN "cancel"
         ELSE IF BuildApprovals(r.required_action.tool_calls) # <<>>
              THEN "submit"
              ELSE "loop"
    ELSE "loop"

(***************************************************************************)
(* Initial state                                                           *)
(***************************************************************************)
McpInit(started, env, svc) ==
    /\ environ = env
    /\ service = svc
    /\ svc_next = 1
    /\ svc_agents = {}
    /\ pc = [i \in Inv |-> IF i \in started THEN "request" ELSE "idle"]
    /\ question = [i \in Inv |-> FALSE]
    /\ agent = [i \in Inv |-> 0]
    /\ thread = [i \in Inv |-> 0]
    /\ run = [i \in Inv |-> NoRun]
    /\ tool_approvals = [i \in Inv |-> <<>>]
    /\ run_status = [i \in Inv |-> "failed"]
    /\ run_id = [i \in Inv |-> 0]
    /\ run_error = [i \in Inv |-> None]
    /\ assistant_answer = [i \in Inv |-> ""]
    /\ conversation = [i \in Inv |-> <<>>]
    /\ messages = [i \in Inv |-> <<>>]
    /\ response = [i \in Inv |-> NoResponse]
    /\ calls = [i \in Inv |-> <<>>]

\* run_rag_query before it is invoked
RagIdle ==
    [pc |-> "idle", question |-> FALSE, top_k |-> 0, hits |-> 0,
     retrieved_docs |-> <<>>, stage |-> "search", agent_failed |-> FALSE,
     answer |-> "unbound", exc |-> None, response |-> [status_code |-> 0]]

\* the run_mcp_agent invocations in started, run_rag_query not invoked
InitFor(started, env, svc) == McpInit(started, env, svc) /\ rag = RagIdle

\* one invocation, any configuration, a service that may do anything
Init == \E env \in SUBSET SettingNames : InitFor({1}, env, "arbitrary")

\* one invocation, full configuration, the scripted service
InitTranscript == InitFor({1}, SettingNames, "scripted")

(***************************************************************************)
(* Steps of run_mcp_agent                                                  *)
(***************************************************************************)
Goto(i, label) == pc' = [pc EXCEPT ![i] = label]

Return(i, resp) ==
    /\ pc' = [pc EXCEPT ![i] = "done"]
    /\ response' = [response EXCEPT ![i] = resp]

Record(i, c) == calls' = [calls EXCEPT ![i] = Append(@, c)]

\* lines 346-402
ReceiveRequest(i) ==
    /\ pc[i] = "request"
    /\ \E q \in (IF service = "arbitrary" THEN BOOLEAN ELSE {TRUE}) :
        /\ question' = [question EXCEPT ![i] = q]
        /\ IF ~q
           THEN Return(i, [status_code |-> 400,
                           error |-> "Provide a 'question' query parameter."])
           ELSE IF missing_settings # <<>>
           THEN Return(i, [status_code |-> 500,
                           error |-> "Missing configuration settings.",
                           missing |-> missing_settings])
           ELSE Goto(i, "create_agent") /\ UNCHANGED response
    /\ assistant_answer' = [assistant_answer EXCEPT ![i] = ""]
    /\ conversation' = [conversation EXCEPT ![i] = <<>>]
    /\ run_status' = [run_status EXCEPT ![i] = "failed"]
    /\ run_id' = [run_id EXCEPT ![i] = 0]
    /\ run_error' = [run_error EXCEPT ![i] = None]
    /\ UNCHANGED <<rag, environ, service, svc_next, svc_agents, agent, thread, run,
                   tool_approvals, messages, calls>>

\* lines 409-419
CreateAgent(i) ==
    /\ pc[i] = "create_agent"
    /\ \E o \in Outcomes :
        /\ Record(i, Call("createAgent", 0, 0, 0, <<>>, o, NoView))
        /\ IF o = "ok"
           THEN /\ agent' = [agent EXCEPT ![i] = svc_next]
                /\ svc_agents' = svc_agents \cup {svc_next}
                /\ svc_next' = svc_next + 1
                /\ Goto(i, "create_thread")
                /\ UNCHANGED response
           ELSE /\ Return(i, ErrorResponse(o))
                /\ UNCHANGED <<agent, svc_agents, svc_next>>
    /\ UNCHANGED <<rag, environ, service, question, thread, run, tool_approvals,
                   run_status, run_id, run_error, assistant_answer, conversation, messages>>

\* lines 422-423
CreateThread(i) ==
    /\ pc[i] = "create_thread"
    /\ \E o \in Outcomes :
        /\ Record(i, Call("createThread", 0, 0, 0, <<>>, o, NoView))
        /\ IF o = "ok"
           THEN /\ thread' = [thread EXCEPT ![i] = svc_next]
                /\ svc_next' = svc_next + 1
                /\ Goto(i, "post_message")
                /\ UNCHANGED response
           ELSE /\ Return(i, ErrorResponse(o))
                /\ UNCHANGED <<thread, svc_next>>
    /\ UNCHANGED <<rag, environ, service, svc_agents, question, agent, run,
                   tool_approvals, run_status, run_id, run_error,
                   assistant_answer, conversation, messages>>

\* lines 425-430
PostMessage(i) ==
    /\ pc[i] = "post_message"
    /\ \E o \in Outcomes :
        /\ Record(i, Call("postMessage", 0, thread[i], 0, <<>>, o, NoView))
        /\ IF o = "ok"
           THEN Goto(i, "create_run") /\ UNCHANGED response
           ELSE Return(i, ErrorResponse(o))
    /\ UNCHANGED <<rag, environ, service, svc_next, svc_agents, question, agent,
                   thread, run, tool_approvals, run_status, run_id, run_error,
                   assistant_answer, conversation, messages>>

\* the run objects runs.create can return
CreatedViews ==
    IF service \in {"scripted", "shared"}
    THEN {ViewOf("queued")}
    ELSE {v \in RunViews : v.status \in {"queued", "in_progress", "completed", "failed"}}

\* lines 432-440: os.environ["MCP_EXTENSION_KEY"], then runs.create
CreateRun(i) ==
    /\ pc[i] = "create_run"
    /\ IF ~IsSet("MCP_EXTENSION_KEY")
       THEN /\ Return(i, ErrorResponse("KeyError"))
            /\ UNCHANGED <<run, run_id, svc_next, calls>>
       ELSE \E o \in Outcomes, view \in CreatedViews :
            /\ Record(i, Call("createRun", agent[i], thread[i], 0, <<>>, o, view))
            /\ IF o = "ok"
               THEN /\ run' = [run EXCEPT ![i] = RunObject(svc_next, view)]
                    /\ run_id' = [run_id EXCEPT ![i] = svc_next]
                    /\ svc_next' = svc_next + 1
                    /\ Goto(i, "loop")
                    /\ UNCHANGED response
               ELSE /\ Return(i, ErrorResponse(o))
                    /\ UNCHANGED <<run, run_id, svc_next>>
    /\ UNCHANGED <<rag, environ, service, svc_agents, question, agent, thread,
                   tool_approvals, run_status, run_error, assistant_answer,
                   conversation, messages>>

\* line 442, condition true: await asyncio.sleep(1) suspends the handler
Sleep(i) ==
    /\ pc[i] = "loop"
    /\ run[i].status \in LoopStatuses
    /\ Polls(i) < MaxPolls
    /\ Goto(i, "sleep")
    /\ UNCHANGED <<rag, environ, service, svc_next, svc_agents, question, agent,
                   thread, run, tool_approvals, run_status, run_id, run_error,
                   assistant_answer, conversation, messages, response, calls>>

\* line 443 interrupted: asyncio.CancelledError is a BaseException, neither
\* except clause of lines 541-554 catches it and it leaves the handler
Cancelled(i) ==
    /\ pc[i] = "sleep"
    /\ service = "arbitrary"
    /\ Goto(i, "cancelled")
    /\ UNCHANGED <<rag, environ, service, svc_next, svc_agents, question, agent,
                   thread, run, tool_approvals, run_status, run_id, run_error,
                   assistant_answer, conversation, messages, response, calls>>

\* what the service shared by concurrent invocations reports: the run is
\* done, waits for the approval of one MCP call, or waits with no call
SharedViews ==
    {v \in RunViews :
        \/ v.status = "completed"
        \/ /\ v.status = "requires_action"
           /\ v.required_action.kind = "submit_tool_approval"
           /\ v.required_action.tool_calls \in {<<>>, ToolCalls(<<"mcp">>)}}

\* run objects of a run that has ended
EndedViews ==
    {v \in RunViews : v.status \in {"completed", "failed", "cancelled", "expired"}}

\* the run objects runs.get can return on this poll; the terminating
\* service reports an ended run on the last poll of the model at the latest
PollViews(i) ==
    CASE service = "scripted" ->
           {ViewOf(IF Polls(i) < Len(Script) THEN Script[Polls(i) + 1] ELSE "completed")}
      [] service = "shared" -> SharedViews
      [] service = "terminating" ->
           IF Polls(i) + 1 >= MaxPolls THEN EndedViews ELSE RunViews
      [] OTHER -> RunViews

\* lines 444-480: runs.get and the handling of the status it returned
GetRun(i) ==
    /\ pc[i] = "sleep"
    /\ \E o \in Outcomes, view \in PollViews(i) :
        /\ Record(i, Call("getRun", 0, thread[i], run[i].id, <<>>, o, view))
        /\ IF o = "ok"
           THEN LET r == RunObject(run[i].id, view) IN
                /\ run' = [run EXCEPT ![i] = r]
                /\ tool_approvals' =
                     [tool_approvals EXCEPT ![i] =
                        IF NeedsApproval(r) /\ r.required_action.tool_calls # <<>>
                        THEN BuildApprovals(r.required_action.tool_calls)
                        ELSE @]
                /\ Goto(i, AfterPoll(r))
                /\ UNCHANGED response
           ELSE /\ Return(i, ErrorResponse(o))
                /\ UNCHANGED <<run, tool_approvals>>
    /\ UNCHANGED <<rag, environ, service, svc_next, svc_agents, question, agent,
                   thread, run_status, run_id, run_error, assistant_answer,
                   conversation, messages>>

\* lines 449-451
CancelRun(i) ==
    /\ pc[i] = "cancel"
    /\ \E o \in Outcomes :
        /\ Record(i, Call("cancelRun", 0, thread[i], run[i].id, <<>>, o, NoView))
        /\ IF o = "ok"
           THEN Goto(i, "break") /\ UNCHANGED response
           ELSE Return(i, ErrorResponse(o))
    /\ UNCHANGED <<rag, environ, service, svc_next, svc_agents, question, agent,
                   thread, run, tool_approvals, run_status, run_id, run_error,
                   assistant_answer, conversation, messages>>

\* lines 473-478
SubmitApprovals(i) ==
    /\ pc[i] = "submit"
    /\ \E o \in Outcomes :
        /\ Record(i, Call("submitToolApprovals", 0, thread[i], run[i].id,
                          tool_approvals[i], o, NoView))
        /\ IF o = "ok"
           THEN Goto(i, "loop") /\ UNCHANGED response
           ELSE Return(i, ErrorResponse(o))
    /\ UNCHANGED <<rag, environ, service, svc_next, svc_agents, question, agent,
                   thread, run, tool_approvals, run_status, run_id, run_error,
                   assistant_answer, conversation, messages>>

\* a loop that gives up after two polls, whatever the run reports
ExitLoop_pollLimit(i) ==
    /\ \/ pc[i] = "loop" /\ (run[i].status \notin LoopStatuses \/ Polls(i) >= 2)
       \/ pc[i] = "break"
    /\ run_status' = [run_status EXCEPT ![i] = run[i].status]
    /\ run_error' = [run_error EXCEPT ![i] =
                       IF run[i].status = "failed" THEN run[i].last_error ELSE @]
    /\ Goto(i, "run_steps")
    /\ UNCHANGED <<rag, environ, service, svc_next, svc_agents, question, agent,
                   thread, run, tool_approvals, run_id, assistant_answer,
                   conversation, messages, response, calls>>

\* line 442 condition false, or the break of line 451; then lines 482-487
ExitLoop(i) ==
    /\ \/ pc[i] = "loop" /\ run[i].status \notin LoopStatuses
       \/ pc[i] = "break"
    /\ run_status' = [run_status EXCEPT ![i] = run[i].status]
    /\ run_error' = [run_error EXCEPT ![i] =
                       IF run[i].status = "failed" THEN run[i].last_error ELSE @]
    /\ Goto(i, "run_steps")
    /\ UNCHANGED <<rag, environ, service, svc_next, svc_agents, question, agent,
                   thread, run, tool_approvals, run_id, assistant_answer,
                   conversation, messages, response, calls>>

\* lines 489-516: run_steps.list, iterated for logging only; control then
\* goes to the statement at label
ListRunStepsThen(i, label) ==
    /\ pc[i] = "run_steps"
    /\ \E o \in Outcomes :
        /\ Record(i, Call("listRunSteps", 0, thread[i], run[i].id, <<>>, o, NoView))
        /\ IF o = "ok"
           THEN Goto(i, label) /\ UNCHANGED response
           ELSE Return(i, ErrorResponse(o))
    /\ UNCHANGED <<rag, environ, service, svc_next, svc_agents, question, agent,
                   thread, run, tool_approvals, run_status, run_id, run_error,
                   assistant_answer, conversation, messages>>

\* the agent deleted right after the run steps, before the transcript is read
ListRunSteps_thenDelete(i) == ListRunStepsThen(i, "delete")

\* line 518 follows line 516
ListRunSteps(i) == ListRunStepsThen(i, "messages")

\* lines 518-537: messages.list and the async for over it
ListMessages(i) ==
    /\ pc[i] = "messages"
    /\ \E o \in Outcomes, msgs \in MessageLists :
        /\ Record(i, Call("listMessages", 0, thread[i], 0, <<>>, o, NoView))
        /\ IF o = "ok"
           THEN LET acc == Collect([conversation |-> conversation[i],
                                    assistant_answer |-> assistant_answer[i]],
                                   msgs) IN
                /\ messages' = [messages EXCEPT ![i] = msgs]
                /\ conversation' = [conversation EXCEPT ![i] = acc.conversation]
                /\ assistant_answer' =
                     [assistant_answer EXCEPT ![i] = acc.assistant_answer]
                /\ Goto(i, "delete")
                /\ UNCHANGED response
           ELSE /\ msgs = <<>>
                /\ Return(i, ErrorResponse(o))
                /\ UNCHANGED <<messages, conversation, assistant_answer>>
    /\ UNCHANGED <<rag, environ, service, svc_next, svc_agents, question, agent,
                   thread, run, tool_approvals, run_status, run_id, run_error>>

\* the id of an agent variable shared by the invocations: the agent that
\* was created last
DeletedAgentId_latest(i) ==
    IF svc_agents = {} THEN agent[i]
    ELSE CHOOSE a \in svc_agents : \A b \in svc_agents : b <= a

\* line 539: agent.id of the local variable agent
DeletedAgentId(i) == agent[i]

\* lines 539-540
DeleteAgent(i) ==
    /\ pc[i] = "delete"
    /\ \E o \in Outcomes :
        /\ Record(i, Call("deleteAgent", DeletedAgentId(i), 0, 0, <<>>, o, NoView))
        /\ IF o = "ok"
           THEN /\ svc_agents' = svc_agents \ {DeletedAgentId(i)}
                /\ Goto(i, "respond")
                /\ UNCHANGED response
           ELSE /\ Return(i, ErrorResponse(o))
                /\ UNCHANGED svc_agents
    /\ UNCHANGED <<rag, environ, service, svc_next, question, agent, thread, run,
                   tool_approvals, run_status, run_id, run_error,
                   assistant_answer, conversation, messages>>

\* the body built from the initial value of line 400, as if line 482
\* had not assigned run_status
response_body_initial(i) ==
    LET body == [status_code |-> 200,
                 answer |-> assistant_answer[i],
                 runStatus |-> "failed",
                 runId |-> run_id[i],
                 conversation |-> conversation[i]]
    IN  IF run_error[i] # None
        THEN [k \in DOMAIN body \cup {"runError"} |->
                IF k = "runError" THEN run_error[i] ELSE body[k]]
        ELSE body

\* lines 556-563
response_body(i) ==
    LET body == [status_code |-> 200,
                 answer |-> assistant_answer[i],
                 runStatus |-> run_status[i],
                 runId |-> run_id[i],
                 conversation |-> conversation[i]]
    IN  IF run_error[i] # None
        THEN [k \in DOMAIN body \cup {"runError"} |->
                IF k = "runError" THEN run_error[i] ELSE body[k]]
        ELSE body

\* lines 556-569
Respond(i) ==
    /\ pc[i] = "respond"
    /\ Return(i, response_body(i))
    /\ UNCHANGED <<rag, environ, service, svc_next, svc_agents, question, agent,
                   thread, run, tool_approvals, run_status, run_id, run_error,
                   assistant_answer, conversation, messages, calls>>

(***************************************************************************)
(* Specifications                                                          *)
(***************************************************************************)
Next ==
    \E i \in Inv :
        \/ ReceiveRequest(i)
        \/ CreateAgent(i)
        \/ CreateThread(i)
        \/ PostMessage(i)
        \/ CreateRun(i)
        \/ Sleep(i)
        \/ Cancelled(i)
        \/ GetRun(i)
        \/ CancelRun(i)
        \/ SubmitApprovals(i)
        \/ ExitLoop(i)
        \/ ListRunSteps(i)
        \/ ListMessages(i)
        \/ DeleteAgent(i)
        \/ Respond(i)

Spec == Init /\ [][Next]_vars

\* the handler against the scripted service: no call raises, the run goes
\* queued, in_progress, completed, and the thread holds any transcript
NextTranscript ==
    \E i \in Inv :
        \/ ReceiveRequest(i)
        \/ CreateAgent(i)
        \/ CreateThread(i)
        \/ PostMessage(i)
        \/ CreateRun(i)
        \/ Sleep(i)
        \/ GetRun(i)
        \/ ExitLoop(i)
        \/ ListRunSteps(i)
        \/ ListMessages(i)
        \/ DeleteAgent(i)
        \/ Respond(i)

SpecTranscript == InitTranscript /\ [][NextTranscript]_vars

\* two invocations running concurrently against one service, interleaved at
\* their awaits
InitShared == InitFor({1, 2}, SettingNames, "shared")

NextShared ==
    \E i \in Inv :
        \/ ReceiveRequest(i)
        \/ CreateAgent(i)
        \/ CreateThread(i)
        \/ PostMessage(i)
        \/ CreateRun(i)
        \/ Sleep(i)
        \/ GetRun(i)
        \/ CancelRun(i)
        \/ SubmitApprovals(i)
        \/ ExitLoop(i)
        \/ ListRunSteps(i)
        \/ ListMessages(i)
        \/ DeleteAgent(i)
        \/ Respond(i)

SpecShared == InitShared /\ [][NextShared]_vars

\* one invocation, any configuration, against a service whose calls all
\* return and whose run ends: the handler is a coroutine of the asyncio event
\* loop, which resumes it whenever the awaited call or sleep has completed,
\* so a step that stays possible is eventually taken
InitLive == \E env \in SUBSET SettingNames : InitFor({1}, env, "terminating")

NextLive ==
    \E i \in Inv :
        \/ ReceiveRequest(i)
        \/ CreateAgent(i)
        \/ CreateThread(i)
        \/ PostMessage(i)
        \/ CreateRun(i)
        \/ Sleep(i)
        \/ GetRun(i)
        \/ CancelRun(i)
        \/ SubmitApprovals(i)
        \/ ExitLoop(i)
        \/ ListRunSteps(i)
        \/ ListMessages(i)
        \/ DeleteAgent(i)
        \/ Respond(i)

SpecLive == InitLive /\ [][NextLive]_vars /\ WF_vars(NextLive)

(***************************************************************************)
(* run_rag_query, lines 198-342                                            *)
(***************************************************************************)
MaxHits == 3         \* documents the search pager yields in the model

DefaultTopK == 3     \* AZURE_SEARCH_TOP_K when it is not set, line 249

RagSettingNames ==
    {"AZURE_SEARCH_ENDPOINT", "AZURE_SEARCH_INDEX_NAME",
     "AZURE_AI_PROJECT_ENDPOINT", "AZURE_AI_MODEL_DEPLOYMENT_NAME"}

\* the dict of lines 227-232, in insertion order
RagCheckedSettings ==
    <<"AZURE_SEARCH_ENDPOINT", "AZURE_SEARCH_INDEX_NAME",
      "AZURE_AI_PROJECT_ENDPOINT", "AZURE_AI_MODEL_DEPLOYMENT_NAME">>

rag_missing_settings == SelectSeq(RagCheckedSettings, LAMBDA name : ~IsSet(name))

\* values of top_k: a configured 1, or the default
TopKValues == {1, DefaultTopK}

RagReturn(resp) == rag' = [rag EXCEPT !.pc = "done", !.response = resp]

\* an exception no except clause catches leaves the handler
RagPropagate(exc) == rag' = [rag EXCEPT !.pc = "unhandled", !.exc = exc]

\* the except clause of lines 285-291
RagSearchFailed(exc) ==
    IF exc \in {"ClientAuthenticationError", "HttpResponseError"}
    THEN RagReturn([status_code |-> 502, error |-> "Azure AI Search query failed.",
                    details |-> exc])
    ELSE RagPropagate(exc)

\* lines 201-251
RagReceiveRequest ==
    /\ rag.pc = "request"
    /\ \E q \in BOOLEAN, k \in TopKValues :
        IF ~q
        THEN k = DefaultTopK
             /\ RagReturn([status_code |-> 400,
                           error |-> "Provide a 'question' query parameter."])
        ELSE IF rag_missing_settings # <<>>
        THEN k = DefaultTopK
             /\ rag' = [rag EXCEPT !.pc = "done", !.question = TRUE,
                                   !.response = [status_code |-> 500,
                                                 error |-> "Missing configuration settings.",
                                                 missing |-> rag_missing_settings]]
        ELSE rag' = [rag EXCEPT !.pc = "search", !.question = TRUE, !.top_k = k,
                                !.retrieved_docs = <<>>]
    /\ UNCHANGED mcp_vars

\* lines 253-272: the credential, the search client and search_client.search
RagSearch ==
    /\ rag.pc = "search"
    /\ \E o \in {"ok"} \cup Raisable :
        IF o = "ok"
        THEN rag' = [rag EXCEPT !.pc = "fetch"]
        ELSE RagSearchFailed(o)
    /\ UNCHANGED mcp_vars

\* lines 273-284: one iteration of the async for over the pager
RagFetch ==
    /\ rag.pc = "fetch"
    /\ rag.hits < MaxHits
    /\ \E o \in {"ok"} \cup Raisable, content_value \in {"", "text"} :
        IF o = "ok"
        THEN IF content_value = ""
             THEN rag' = [rag EXCEPT !.hits = @ + 1]
             ELSE LET docs == Append(rag.retrieved_docs,
                                     [content |-> content_value,
                                      source |-> rag.hits + 1])
                  IN  rag' = [rag EXCEPT !.hits = @ + 1,
                                         !.retrieved_docs = docs,
                                         !.pc = IF Len(docs) >= rag.top_k
                                                THEN "retrieved" ELSE "fetch"]
        ELSE content_value = "" /\ RagSearchFailed(o)
    /\ UNCHANGED mcp_vars

\* line 273: the pager has no further document
RagPagerEnd ==
    /\ rag.pc = "fetch"
    /\ rag' = [rag EXCEPT !.pc = "retrieved"]
    /\ UNCHANGED mcp_vars

\* lines 293-303
RagCheckDocs ==
    /\ rag.pc = "retrieved"
    /\ IF rag.retrieved_docs = <<>>
       THEN RagReturn([status_code |-> 200, answer |-> "", sources |-> <<>>,
                       message |-> "No relevant documents found."])
       ELSE rag' = [rag EXCEPT !.pc = "agent_client", !.stage = "agent"]
    /\ UNCHANGED mcp_vars

\* lines 305-309 and 325-331: the credential and the agent client are opened
RagOpenClient ==
    /\ rag.pc = "agent_client"
    /\ \E o \in {"ok"} \cup Raisable :
        IF o = "ok"
        THEN rag' = [rag EXCEPT !.pc = "agent_run"]
        ELSE RagReturn([status_code |-> 502, error |-> "Agent execution failed.",
                        details |-> o])
    /\ UNCHANGED mcp_vars

\* lines 310-324: the chat agent is created and run; the inner except clause
\* logs the exception and control goes on after the try statements
RagRunAgent ==
    /\ rag.pc = "agent_run"
    /\ \E o \in {"ok"} \cup Raisable :
        IF o = "ok"
        THEN rag' = [rag EXCEPT !.pc = "respond", !.answer = "answer"]
        ELSE rag' = [rag EXCEPT !.pc = "respond", !.agent_failed = TRUE]
    /\ UNCHANGED mcp_vars

\* lines 333-342: str(answer) reads the local answer
RagRespond ==
    /\ rag.pc = "respond"
    /\ IF rag.answer = "unbound"
       THEN RagPropagate("UnboundLocalError")
       ELSE RagReturn([status_code |-> 200, answer |-> rag.answer,
                       sources |-> rag.retrieved_docs])
    /\ UNCHANGED mcp_vars

\* run_rag_query invoked once, any configuration
InitRag ==
    \E env \in SUBSET RagSettingNames :
        /\ McpInit({}, env, "arbitrary")
        /\ rag = [RagIdle EXCEPT !.pc = "request"]

NextRag ==
    \/ RagReceiveRequest
    \/ RagSearch
    \/ RagFetch
    \/ RagPagerEnd
    \/ RagCheckDocs
    \/ RagOpenClient
    \/ RagRunAgent
    \/ RagRespond

SpecRag == InitRag /\ [][NextRag]_vars

(***************************************************************************)
(* Vocabulary of the properties                                            *)
(***************************************************************************)
Started == {i \in Inv : pc[i] # "idle"}

Returned(i) == pc[i] = "done"

CallsOf(i, op) == {k \in DOMAIN calls[i] : calls[i][k].op = op}

AnyRaised(i) == \E k \in DOMAIN calls[i] : calls[i][k].raised

\* the poll at position k of the log returned a run object
Observed(i, k) ==
    /\ k \in DOMAIN calls[i]
    /\ calls[i][k].op = "getRun"
    /\ ~calls[i][k].raised

\* the poll at position k saw requires_action, submit-tool-approval, no calls
ZeroCallPoll(i, k) ==
    /\ Observed(i, k)
    /\ calls[i][k].result.status = "requires_action"
    /\ calls[i][k].result.action = "submit_tool_approval"
    /\ ~calls[i][k].result.pending

\* the handler is past the polling loop
LoopExited(i) ==
    \/ pc[i] \in {"run_steps", "messages", "delete", "respond"}
    \/ Returned(i) /\ CallsOf(i, "listRunSteps") # {}

\* the statuses the service reported for the run, creation first
RECURSIVE ReportedStatuses(_)
ReportedStatuses(log) ==
    IF log = <<>> THEN <<>>
    ELSE LET c == Head(log) IN
         IF c.op \in {"createRun", "getRun"} /\ ~c.raised
         THEN <<c.result.status>> \o ReportedStatuses(Tail(log))
         ELSE ReportedStatuses(Tail(log))

(***************************************************************************)
(* C1  Release invariant.  Whenever the handler has returned and           *)
(* create_agent had succeeded in that execution, the log holds exactly one *)
(* deleteAgent call and it carries the id of the agent created.            *)
(***************************************************************************)
C1_ReleaseInvariant ==
    \A i \in Started :
        Returned(i) /\ agent[i] # 0 =>
            /\ Cardinality(CallsOf(i, "deleteAgent")) = 1
            /\ \A k \in CallsOf(i, "deleteAgent") : calls[i][k].agent = agent[i]

(***************************************************************************)
(* C2  Missing-config short-circuit.  A request with a question, processed *)
(* while one of the four required settings is absent, is answered with     *)
(* HTTP 500 naming exactly the absent settings, and no service method was  *)
(* called.                                                                 *)
(***************************************************************************)
C2_MissingConfigShortCircuit ==
    \A i \in Started :
        Returned(i) /\ question[i] /\ environ # SettingNames =>
            /\ response[i].status_code = 500
            /\ {response[i].missing[k] : k \in DOMAIN response[i].missing}
                 = SettingNames \ environ
            /\ calls[i] = <<>>

(***************************************************************************)
(* C3  Zero-call cancellation.  After a poll that saw requires_action with *)
(* a submit-tool-approval action and no pending call: the next call is     *)
(* cancelRun for that run, it is the only cancelRun, no getRun and no      *)
(* approval submission follows, and the handler is never back in the loop; *)
(* when no call raised, listMessages and deleteAgent follow and the        *)
(* response is HTTP 200.                                                   *)
(***************************************************************************)
C3_ZeroCallCancellation ==
    \A i \in Started : \A k \in DOMAIN calls[i] :
        ZeroCallPoll(i, k) =>
            /\ pc[i] \notin {"loop", "sleep", "submit"}
            /\ \A j \in DOMAIN calls[i] :
                 j > k => calls[i][j].op \notin {"getRun", "submitToolApprovals"}
            /\ IF pc[i] = "cancel"
               THEN k = Len(calls[i])
               ELSE /\ k < Len(calls[i])
                    /\ calls[i][k + 1].op = "cancelRun"
                    /\ calls[i][k + 1].run = run_id[i]
                    /\ calls[i][k + 1].thread = thread[i]
                    /\ CallsOf(i, "cancelRun") = {k + 1}
            /\ Returned(i) /\ ~AnyRaised(i) =>
                 /\ response[i].status_code = 200
                 /\ \E m \in CallsOf(i, "listMessages") : m > k
                 /\ \E d \in CallsOf(i, "deleteAgent") :
                      d > k /\ calls[i][d].agent = agent[i]

C3_Witness ==
    \E i \in Started : \E k \in DOMAIN calls[i] :
        /\ ZeroCallPoll(i, k)
        /\ Returned(i)
        /\ response[i].status_code = 200
        /\ CallsOf(i, "cancelRun") # {}

(***************************************************************************)
(* C4  Approval batching.  Every approval submission directly follows a    *)
(* poll that saw requires_action with pending calls, so there is at most   *)
(* one per poll.  After the latest such poll, whose run object is in run:  *)
(* if some pending call is an MCP call, the next call is the submission    *)
(* and its batch holds, in order, one approval with approve = TRUE and the *)
(* call id per pending MCP call and nothing else; if none is an MCP call   *)
(* nothing is submitted and the handler is back in the loop, where it      *)
(* sleeps (and may be interrupted) before the next poll.                   *)
(***************************************************************************)
McpCalls(tool_calls) == SelectSeq(tool_calls, LAMBDA c : c.kind = "mcp")

ExpectedBatch(tool_calls) ==
    [n \in 1..Len(McpCalls(tool_calls)) |->
        [tool_call_id |-> McpCalls(tool_calls)[n].id, approve |-> TRUE]]

\* the poll at position k saw requires_action with pending tool calls
PendingPoll(i, k) ==
    /\ Observed(i, k)
    /\ calls[i][k].result.status = "requires_action"
    /\ calls[i][k].result.pending

\* position of the latest poll, 0 when there was none
LastPoll(i) ==
    IF CallsOf(i, "getRun") = {} THEN 0
    ELSE CHOOSE k \in CallsOf(i, "getRun") : \A j \in CallsOf(i, "getRun") : j <= k

ActiveStatuses == {"queued", "in_progress", "requires_action"}

LastReported(i) ==
    ReportedStatuses(calls[i])[Len(ReportedStatuses(calls[i]))]

\* the log before position k
Before(i, k) == SubSeq(calls[i], 1, k - 1)

PollsFollowActive(i) ==
    \A k \in CallsOf(i, "getRun") :
        LET earlier == ReportedStatuses(Before(i, k)) IN
        /\ earlier # <<>>
        /\ earlier[Len(earlier)] \in ActiveStatuses

FinalIsLastFetched(i) ==
    Returned(i) /\ response[i].status_code = 200 =>
        response[i].runStatus = LastReported(i)

C5_PollsExactlyWhileActive ==
    \A i \in Started :
        /\ PollsFollowActive(i)
        /\ LoopExited(i) => LastReported(i) \notin ActiveStatuses
        /\ FinalIsLastFetched(i)

(***************************************************************************)
(* C5 as amended: every poll follows a reported status in {queued,         *)
(* in_progress, requires_action}; the handler is past the loop only when   *)
(* the last reported status is outside that set or the last poll was a     *)
(* zero-call poll that was answered with cancelRun; the runStatus of a 200 *)
(* response is the last reported status; when the polls report queued,     *)
(* in_progress, completed there are exactly 3 polls and runStatus is       *)
(* completed, and the handler is still in the loop before the third.       *)
(***************************************************************************)
PolledStatuses(i) ==
    ReportedStatuses(SelectSeq(calls[i], LAMBDA c : c.op = "getRun"))

ScriptedPolls == <<"queued", "in_progress", "completed">>

C5_TerminalLoopBound ==
    \A i \in Started :
        /\ PollsFollowActive(i)
        /\ LoopExited(i) =>
             \/ LastReported(i) \notin ActiveStatuses
             \/ \E k \in DOMAIN calls[i] :
                  /\ ZeroCallPoll(i, k)
                  /\ CallsOf(i, "getRun") \subseteq 1..k
                  /\ CallsOf(i, "cancelRun") = {k + 1}
        /\ FinalIsLastFetched(i)
        /\ ( /\ Len(PolledStatuses(i)) >= 3
             /\ SubSeq(PolledStatuses(i), 1, 3) = ScriptedPolls ) =>
               /\ Cardinality(CallsOf(i, "getRun")) = 3
               /\ Returned(i) /\ response[i].status_code = 200 =>
                    response[i].runStatus = "completed"
        /\ ( /\ ~AnyRaised(i)
             /\ PolledStatuses(i) \in {<<"queued">>, <<"queued", "in_progress">>} ) =>
               pc[i] \in {"loop", "sleep", "cancelled"}

C5_Witness ==
    \E i \in Started :
        /\ Returned(i)
        /\ response[i].status_code = 200
        /\ PolledStatuses(i) = ScriptedPolls
        /\ response[i].runStatus = "completed"

(***************************************************************************)
(* C6  Answer extraction, as stated: once the transcript is collected the  *)
(* conversation holds every listed message, in the listed order, and the   *)
(* answer is the text of the last assistant entry, or "" without one.      *)
(***************************************************************************)
Collected(i) ==
    \/ pc[i] \in {"delete", "respond"}
    \/ Returned(i) /\ CallsOf(i, "deleteAgent") # {}

AssistantEntries(conv) == SelectSeq(conv, LAMBDA e : e.role = "assistant")

LastAssistantText(conv) ==
    IF AssistantEntries(conv) = <<>>
    THEN ""
    ELSE AssistantEntries(conv)[Len(AssistantEntries(conv))].text

EntryOf(msg) == [role |-> msg.role, text |-> TextValue(msg)]

WithText(msgs) == SelectSeq(msgs, LAMBDA m : TextValue(m) # "")

ExampleMessages ==
    <<[role |-> "user", text_messages |-> <<"hi">>],
      [role |-> "assistant", text_messages |-> <<"first">>],
      [role |-> "user", text_messages |-> <<"more">>],
      [role |-> "assistant", text_messages |-> <<"first", "second">>]>>

C7_RunFailedIsOutcome ==
    \A i \in Started :
        Returned(i) =>
            /\ ( /\ ReportedStatuses(calls[i]) # <<>>
                 /\ LastReported(i) = "failed"
                 /\ ~AnyRaised(i) ) =>
                   /\ response[i].status_code = 200
                   /\ response[i].runStatus = "failed"
                   /\ "runError" \in DOMAIN response[i]
                   /\ response[i].runError = run[i].last_error
                   /\ run[i].last_error # None
            /\ response[i].status_code = 502 => AnyRaised(i)

(***************************************************************************)
(* C8  A failure of deleteAgent never changes the outcome.  When the       *)
(* handler has returned and its deleteAgent call raised (the run had       *)
(* reached its final status and the transcript was collected), the         *)
(* response is the HTTP 200 outcome built from the collected values; when  *)
(* an earlier call raised, the error surfaced is that call's.              *)
(***************************************************************************)
DeleteRaised(i) ==
    \E k \in CallsOf(i, "deleteAgent") : calls[i][k].raised

C8_DeleteFailureKeepsOutcome ==
    \A i \in Started :
        Returned(i) /\ DeleteRaised(i) =>
            IF \E k \in DOMAIN calls[i] :
                  calls[i][k].raised /\ calls[i][k].op # "deleteAgent"
            THEN response[i].status_code = 502
            ELSE /\ response[i].status_code = 200
                 /\ response[i].runStatus = run_status[i]
                 /\ response[i].answer = assistant_answer[i]

(***************************************************************************)
(* C9  Release on cancellation.  When the cancellation that interrupted    *)
(* the poll-interval sleep has left the handler and the agent had been     *)
(* created, a deleteAgent call for that agent has been made.               *)
(***************************************************************************)
C9_ReleaseOnCancellation ==
    \A i \in Started :
        pc[i] = "cancelled" /\ agent[i] # 0 =>
            \E k \in CallsOf(i, "deleteAgent") : calls[i][k].agent = agent[i]

(***************************************************************************)
(* C10  Protocol order.  The calls of the service interface (the log       *)
(* without the logging-only run_steps.list) are a prefix of                *)
(*   createAgent createThread postMessage createRun                        *)
(*   (getRun [submitToolApprovals | cancelRun])* listMessages deleteAgent  *)
(* a call that raised is the last call; getRun, submitToolApprovals and    *)
(* cancelRun come after a createRun that returned; listMessages is called  *)
(* only past the loop; deleteAgent is the last call of the whole log and   *)
(* directly follows listMessages.                                          *)
(***************************************************************************)
InterfaceCalls(i) == SelectSeq(calls[i], LAMBDA c : c.op # "listRunSteps")

\* the methods that may come after op in the sequence
MayFollow(op) ==
    CASE op = "start"               -> {"createAgent"}
      [] op = "createAgent"         -> {"createThread"}
      [] op = "createThread"        -> {"postMessage"}
      [] op = "postMessage"         -> {"createRun"}
      [] op = "createRun"           -> {"getRun", "listMessages"}
      [] op = "getRun"              -> {"getRun", "submitToolApprovals",
                                        "cancelRun", "listMessages"}
      [] op = "submitToolApprovals" -> {"getRun", "listMessages"}
      [] op = "cancelRun"           -> {"getRun", "listMessages"}
      [] op = "listMessages"        -> {"deleteAgent"}
      [] op = "deleteAgent"         -> {}

IdsOf(i) == {agent[i], thread[i], run_id[i]} \ {0}

Locals(i) ==
    <<question[i], agent[i], thread[i], run[i], tool_approvals[i], run_status[i],
      run_id[i], run_error[i], assistant_answer[i], conversation[i], messages[i],
      response[i], calls[i]>>

OwnIdsOnly(i) ==
    \A k \in DOMAIN calls[i] :
        LET c == calls[i][k] IN
        /\ c.agent \in {0, agent[i]}
        /\ c.thread \in {0, thread[i]}
        /\ c.run \in {0, run_id[i]}
        /\ c.op \in {"getRun", "submitToolApprovals", "cancelRun", "listRunSteps"} =>
             c.thread = thread[i] /\ c.thread # 0 /\ c.run = run_id[i] /\ c.run # 0
        /\ c.op = "listMessages" => c.thread = thread[i] /\ c.thread # 0
        /\ c.op = "deleteAgent" => c.agent = agent[i] /\ c.agent # 0

DeletedOwn(i) ==
    \E k \in CallsOf(i, "deleteAgent") : ~calls[i][k].raised

C11_State ==
    \A i \in Started :
        /\ OwnIdsOnly(i)
        /\ \A j \in Started \ {i} : IdsOf(i) \cap IdsOf(j) = {}
        /\ agent[i] # 0 => (agent[i] \in svc_agents <=> ~DeletedOwn(i))

C11_Frame ==
    \A i \in Inv : pc'[i] = pc[i] => Locals(i)' = Locals(i)

C11_Isolation == [](C11_State) /\ [][C11_Frame]_vars

C11_Witness ==
    /\ \A i \in Inv : Returned(i) /\ response[i].status_code = 200 /\ DeletedOwn(i)
    /\ agent[1] < agent[2]
    /\ agent[2] < run_id[1]
    /\ CallsOf(1, "submitToolApprovals") # {}
    /\ CallsOf(2, "cancelRun") # {}

(***************************************************************************)
(* C12  run_rag_query always ends with an HTTP response.  Once at least    *)
(* one document was retrieved and the handler has gone on to the agent     *)
(* step: no exception leaves the handler; when the agent step failed the   *)
(* handler returns HTTP 502 with an error body; and a 200 response is      *)
(* returned only when the agent run produced an answer.                    *)
(***************************************************************************)
C12_RagAlwaysResponds ==
    rag.stage = "agent" =>
        /\ rag.retrieved_docs # <<>>
        /\ rag.pc # "unhandled"
        /\ rag.agent_failed /\ rag.pc = "done" =>
             /\ rag.response.status_code = 502
             /\ "error" \in DOMAIN rag.response
        /\ rag.pc = "done" /\ rag.response.status_code = 200 =>
             rag.answer # "unbound" /\ rag.response.answer = rag.answer

(***************************************************************************)
(* C13  Termination.  When every service call returns and the run ends by  *)
(* some poll, every invocation that started eventually returns, and it     *)
(* returns one response: there is none before it returned and the one      *)
(* returned never changes.  The loop has no poll limit of its own: while   *)
(* the run last fetched is queued, in_progress or requires_action the      *)
(* handler only goes on to sleep and to poll, and a run that waits with    *)
(* pending calls none of which can be approved is polled again.            *)
(***************************************************************************)
\* the run last fetched waits with pending calls and nothing to approve
UnsupportedOnly(i) ==
    /\ run[i].status = "requires_action"
    /\ run[i].required_action.tool_calls # <<>>
    /\ BuildApprovals(run[i].required_action.tool_calls) = <<>>

OneResponse(i) ==
    /\ ~Returned(i) => response[i] = NoResponse
    /\ Returned(i) => response[i] # NoResponse /\ response'[i] = response[i] /\ Returned(i)'

KeepsPolling(i) ==
    /\ pc[i] = "loop" /\ run[i].status \in ActiveStatuses => pc'[i] \in {"loop", "sleep"}
    /\ pc[i] = "sleep" => pc'[i] = "sleep" \/ Polls(i)' = Polls(i) + 1

C13_Termination ==
    /\ \A i \in Inv : (pc[i] # "idle") ~> Returned(i)
    /\ [][\A i \in Inv : OneResponse(i) /\ KeepsPolling(i)]_vars
    /\ \A i \in Inv : (pc[i] = "loop" /\ UnsupportedOnly(i)) ~> (pc[i] = "sleep")

\* the run waited with unapprovable calls on every poll but the last, and the
\* handler polled until the service reported the run ended
C13_Witness ==
    /\ Returned(1) /\ response[1].status_code = 200
    /\ Polls(1) = MaxPolls
    /\ CallsOf(1, "submitToolApprovals") = {} /\ CallsOf(1, "cancelRun") = {}
    /\ \A k \in CallsOf(1, "getRun") : k # LastPoll(1) => PendingPoll(1, k)

(***************************************************************************)
(* C14  Outcome consistency.  In every HTTP 200 response that carries      *)
(* runStatus: runStatus is one of the statuses createRun or getRun         *)
(* returned for this run, so "failed" is returned only when the service    *)
(* reported it; runId is the id of the run createRun returned, the one     *)
(* every later call on the run was made with; and runError is present only *)
(* when runStatus is "failed".                                             *)
(***************************************************************************)
\* the statuses the service reported to invocation i
StatusesSeen(i) ==
    LET reported == ReportedStatuses(calls[i]) IN
    {reported[k] : k \in DOMAIN reported}

RunCalls(i) ==
    {k \in DOMAIN calls[i] :
        calls[i][k].op \in {"getRun", "cancelRun", "submitToolApprovals", "listRunSteps"}}

C14_OutcomeConsistency ==
    \A i \in Started :
        (Returned(i) /\ response[i].status_code = 200
                     /\ "runStatus" \in DOMAIN response[i]) =>
            /\ response[i].runStatus \in StatusesSeen(i)
            /\ \E k \in CallsOf(i, "createRun") : ~calls[i][k].raised
            /\ response[i].runId = run[i].id
            /\ response[i].runId \notin {0, agent[i], thread[i]}
            /\ \A k \in RunCalls(i) : calls[i][k].run = response[i].runId
            /\ "runError" \in DOMAIN response[i] => response[i].runStatus = "failed"

\* a 200 response reports a run the service said had failed, with its error
C14_Witness ==
    /\ Returned(1) /\ response[1].status_code = 200
    /\ response[1].runStatus = "failed"
    /\ "runError" \in DOMAIN response[1]
    /\ Polls(1) > 0 /\ LastReported(1) = "failed"

====
